---- MODULE Spec2Model ----
(***************************************************************************)
(* AgroStock Lite: the inventory manager (estoque.py, class Estoque), its  *)
(* local JSON record store (storage.py, class Storage) and the Oracle      *)
(* gateway (oracle_gateway.py, class OracleGateway).                       *)
(*                                                                         *)
(* One step of the model is one call of a public method of Estoque (or the *)
(* construction of an Estoque), including the synchronization pass that    *)
(* the method runs.  What the database and the file system do during the   *)
(* call (connection refused, statement failing, write failing) is an input *)
(* of the step.  Quantities are integers, and NaN where the amounts are   *)
(* every float.  A run is MaxPassos steps long and starts from stores as   *)
(* earlier runs of the program can leave them.                             *)
(***************************************************************************)
EXTENDS Integers, Sequences, FiniteSets, TLC

\* ------------------------------------------------------------------ bounds
\* the number of steps (constructions and calls) of a run
MaxPassos == 3

\* ------------------------------------------------------------ value domains
Codigos == 1..2
Nomes == {"Potassio", "Ureia"}
Unidades == {"kg"}
Precos == {3}
Niveis == {1}
Qtds == (-1)..(1 + MaxPassos)

\* rank of a name in the collation used by ORDER BY NOME
NomeRank(n) == IF n = "Potassio" THEN 1 ELSE 2

\* A supply record as the Python dict of the working set.  data_criacao is
\* "datetime" when the dict carries the DATA_CRIACAO / DATA_ATUALIZACAO
\* columns of a database row (datetime objects), "ausente" when it has no
\* such keys (a dict built by the caller of adicionar_insumo).
Insumos == [codigo : Codigos, nome : Nomes, quantidade : Qtds,
            unidade : Unidades, preco_unit : Precos, nivel_min : Niveis,
            data_criacao : {"ausente", "datetime"}]

\* a placeholder of the same shape, used where no record is involved
SemInsumo == [codigo |-> 0, nome |-> "", quantidade |-> 0, unidade |-> "",
              preco_unit |-> 0, nivel_min |-> 0, data_criacao |-> "ausente"]

\* the empty field set
SemCampos == [c \in {} |-> 0]

VARIABLES
    fase,        \* "novo" before an Estoque exists, "pronto" afterwards
    insumos,     \* Estoque.insumos, the working set (a sequence of dicts)
    tabela,      \* the INSUMOS table of the database: codigo -> row or SemInsumo
    arquivo,     \* the JSON file: [estado, doc]
    connection,  \* OracleGateway.connection: "None" or "aberta"
    ultimo,      \* the last call: method, arguments, result, message, stores
    adicionados, \* the dicts passed to adicionar_insumo while soAdds
    soAdds,      \* TRUE while this Estoque started empty and saw only adds
                 \* with pairwise distinct codes
    passos       \* the number of steps taken

vars == <<fase, insumos, tabela, arquivo, connection, ultimo, adicionados, soAdds,
          passos>>

\* ------------------------------------------------------------ storage.py

\* json.dump of the working set (storage.py:35-36).  A datetime is not JSON
\* serializable: json.dump raises TypeError after the file was truncated and
\* the chunks before the datetime were written.
Serializavel(lista) == \A i \in 1..Len(lista) : lista[i].data_criacao = "ausente"

\* Storage.salvar_insumos.  io is what the file system does: "ok", "abrir"
\* (open() raises: the file is left as it was) or "escrever" (a write raises
\* after the truncation).  Returns the result and the new file.
salvar_insumos(arq, lista, io) ==
    IF io = "abrir" THEN [ok |-> FALSE, arq |-> arq]
    ELSE IF io = "escrever" \/ ~Serializavel(lista)
         THEN [ok |-> FALSE, arq |-> [estado |-> "corrompido", doc |-> <<>>]]
         ELSE [ok |-> TRUE, arq |-> [estado |-> "json", doc |-> lista]]

\* Storage.carregar_insumos, the value returned: [] when the file is missing
\* or json.load raises JSONDecodeError
carregar_insumos(arq) ==
    IF arq.estado = "json" THEN arq.doc ELSE <<>>

\* Storage.carregar_insumos, the exception that leaves it.  The file is
\* opened with encoding='utf-8' and only json.JSONDecodeError is caught
\* (storage.py:23-25): on a file whose bytes are not UTF-8 ("ilegivel")
\* json.load's f.read() raises UnicodeDecodeError, which is a ValueError but
\* not a JSONDecodeError.
carregar_insumos_excecao(arq) ==
    IF arq.estado = "ilegivel" THEN "UnicodeDecodeError" ELSE "nenhuma"

\* ----------------------------------------------------------- oracle_gateway.py

\* OracleGateway.conectar.  up says whether the server answers (a
\* DatabaseError is caught and False returned).
\* Line 81: with a handle in self.connection, ping() is called.  On a live
\* connection cx_Oracle's ping() returns None, so `not ping()` is true and
\* self.connection is set to None: the handle is let go (solta) without
\* close().  On a dead one ping() raises and the handle stays.
\* Line 85: without a handle cx_Oracle.connect opens one (abriu).
conectar(conn, up) ==
    IF up THEN [ok |-> TRUE, conn |-> "aberta", solta |-> conn # "None", abriu |-> TRUE]
    ELSE [ok |-> FALSE, conn |-> conn, solta |-> FALSE, abriu |-> FALSE]

\* executar_query and executar_dml start with self.conectar()
\* (oracle_gateway.py:124, 163); a statement of Ambientes that fails fails in
\* execute().  The number of handles let go by k statements in a row.
RECURSIVE Soltas(_, _)
Soltas(conn, k) ==
    IF k = 0 THEN 0
    ELSE LET c == conectar(conn, TRUE)
         IN (IF c.solta THEN 1 ELSE 0) + Soltas(c.conn, k - 1)

\* OracleGateway.desconectar
desconectar(conn) == "None"

\* the rows of the table as dicts (executar_query builds one dict per row,
\* keyed by the lower-cased column names, timestamps included)
Linhas(tab) == {tab[c] : c \in {k \in Codigos : tab[k] # SemInsumo}}

\* the sequences that list every element of S once
RECURSIVE Perms(_)
Perms(S) ==
    IF S = {} THEN {<<>>}
    ELSE UNION {{<<x>> \o p : p \in Perms(S \ {x})} : x \in S}

Ordenada(lista) ==
    \A i \in 1..(Len(lista) - 1) : NomeRank(lista[i].nome) <= NomeRank(lista[i + 1].nome)

\* OracleGateway.listar_insumos: SELECT ... ORDER BY NOME.  The order of rows
\* with equal names is not determined by the statement; q says whether the
\* query succeeds (None becomes []).
listar_insumos_oracle(tab, q) ==
    IF q THEN {l \in Perms(Linhas(tab)) : Ordenada(l)} ELSE {<<>>}

\* OracleGateway.buscar_insumo: TRUE when a row was returned
buscar_insumo_oracle(tab, codigo, q) ==
    q /\ tab[codigo] # SemInsumo

\* the row stored for a dict: the six columns, timestamps set by the database
Linha(insumo) == [insumo EXCEPT !.data_criacao = "datetime"]

\* OracleGateway.inserir_insumo: CODIGO is the key of the table, so inserting
\* a code that is present fails (unique constraint) like any failed DML
inserir_insumo_oracle(tab, insumo, d) ==
    IF d /\ tab[insumo.codigo] = SemInsumo
    THEN [tab EXCEPT ![insumo.codigo] = Linha(insumo)]
    ELSE tab

\* campos_permitidos (oracle_gateway.py:277-283)
CamposPermitidos == {"nome", "quantidade", "unidade", "preco_unit", "nivel_min"}

\* campos_update: the permitted fields that are keys of the dict
\* (oracle_gateway.py:286-289)
campos_update(insumo) == {campo \in CamposPermitidos : campo \in DOMAIN insumo}

\* UPDATE INSUMOS SET <campos> WHERE CODIGO = :codigo on one row
Atribui(linha, insumo, campos) ==
    [codigo |-> linha.codigo,
     nome |-> IF "nome" \in campos THEN insumo.nome ELSE linha.nome,
     quantidade |-> IF "quantidade" \in campos THEN insumo.quantidade
                    ELSE linha.quantidade,
     unidade |-> IF "unidade" \in campos THEN insumo.unidade ELSE linha.unidade,
     preco_unit |-> IF "preco_unit" \in campos THEN insumo.preco_unit
                    ELSE linha.preco_unit,
     nivel_min |-> IF "nivel_min" \in campos THEN insumo.nivel_min
                   ELSE linha.nivel_min,
     data_criacao |-> linha.data_criacao]

\* variant: the update adds the quantity to the stored one
atualizar_insumo_oracle_delta(tab, codigo, insumo, d) ==
    LET campos == campos_update(insumo)
    IN IF campos = {}
       THEN [ok |-> FALSE, dml |-> FALSE, tab |-> tab]
       ELSE [ok |-> d, dml |-> TRUE,
             tab |-> IF d /\ tab[codigo] # SemInsumo
                     THEN [tab EXCEPT ![codigo] =
                             [Atribui(@, insumo, campos) EXCEPT
                                !.quantidade = IF "quantidade" \in campos
                                               THEN tab[codigo].quantidade + insumo.quantidade
                                               ELSE @]]
                     ELSE tab]

\* variant: the statement is sent also when no permitted field is given
atualizar_insumo_oracle_sem_teste(tab, codigo, insumo, d) ==
    [ok |-> d, dml |-> TRUE,
     tab |-> IF d /\ tab[codigo] # SemInsumo
             THEN [tab EXCEPT ![codigo] = Atribui(@, insumo, campos_update(insumo))]
             ELSE tab]

\* OracleGateway.atualizar_insumo: with no permitted field in the dict, False
\* and no statement; otherwise UPDATE ... SET the permitted columns given
\* WHERE CODIGO = :codigo, through executar_dml.  d says whether the statement
\* executes; it does, and True is returned, also when no row has the code.
\* The dict's own codigo and timestamps are not sent.  Returns the result,
\* whether a statement was sent, and the table.
atualizar_insumo_oracle(tab, codigo, insumo, d) ==
    LET campos == campos_update(insumo)
    IN IF campos = {}
       THEN [ok |-> FALSE, dml |-> FALSE, tab |-> tab]
       ELSE [ok |-> d, dml |-> TRUE,
             tab |-> IF d /\ tab[codigo] # SemInsumo
                     THEN [tab EXCEPT ![codigo] = Atribui(@, insumo, campos)]
                     ELSE tab]

\* ----------------------------------------------------------------- estoque.py

\* What the stores do during one synchronization pass over n records.
\* conecta: whether the gateway opens.  ops[i]: what the database does for
\* record i: "ok" (the SELECT and the INSERT/UPDATE both execute), "busca"
\* (the SELECT fails, so buscar_insumo returns None and the INSERT is sent)
\* or "dml" (the INSERT/UPDATE fails, whatever the SELECT did).  io: what the
\* file system does.  The two stores do not see each other (the write to the
\* file follows the loop whatever the loop did), so a failing file is paired
\* with the database out of reach, with every statement executing and with
\* every INSERT/UPDATE failing, and the statements failing record by record
\* are paired with a file that is written.
Ambientes(n) ==
    {[conecta |-> c, ops |-> [i \in 1..n |-> "dml"], io |-> io] :
        c \in BOOLEAN, io \in {"ok", "abrir", "escrever"}}
    \cup {[conecta |-> TRUE, ops |-> [i \in 1..n |-> "ok"], io |-> io] :
        io \in {"ok", "abrir", "escrever"}}
    \cup [conecta : {TRUE}, ops : [1..n -> {"ok", "busca", "dml"}], io : {"ok"}]

\* the loop of Estoque._sincronizar (estoque.py:29-33) from record i on
RECURSIVE Upserts(_, _, _, _)
Upserts(tab, lista, ops, i) ==
    IF i > Len(lista) THEN tab
    ELSE LET insumo == lista[i]
             novo == IF ~buscar_insumo_oracle(tab, insumo.codigo, ops[i] # "busca")
                     THEN inserir_insumo_oracle(tab, insumo, ops[i] # "dml")
                     ELSE atualizar_insumo_oracle(tab, insumo.codigo, insumo,
                                                  ops[i] # "dml").tab
         IN Upserts(novo, lista, ops, i + 1)

\* variant: the file is written only when the gateway opened
sincronizar_so_conectado(lista, tab, arq, conn, amb) ==
    LET c == conectar(conn, amb.conecta)
        s == salvar_insumos(arq, lista, amb.io)
    IN [tabela |-> IF c.ok THEN Upserts(tab, lista, amb.ops, 1) ELSE tab,
        connection |-> IF c.ok THEN desconectar(c.conn) ELSE c.conn,
        arquivo |-> IF c.ok THEN s.arq ELSE arq,
        salvou |-> c.ok /\ s.ok,
        soltas |-> IF c.ok THEN Soltas(c.conn, 2 * Len(lista)) ELSE 0]

\* Estoque._sincronizar: the stores and the connection after the pass, and
\* the handles let go during it (each record costs two statements: the SELECT
\* of buscar_insumo and the INSERT or UPDATE)
sincronizar(lista, tab, arq, conn, amb) ==
    LET c == conectar(conn, amb.conecta)
        s == salvar_insumos(arq, lista, amb.io)
    IN [tabela |-> IF c.ok THEN Upserts(tab, lista, amb.ops, 1) ELSE tab,
        connection |-> IF c.ok THEN desconectar(c.conn) ELSE c.conn,
        arquivo |-> s.arq,
        salvou |-> s.ok,
        soltas |-> IF c.ok THEN Soltas(c.conn, 2 * Len(lista)) ELSE 0]

\* variant: an empty result of a reachable gateway is taken as the working set
carregar_sem_fallback(tab, arq, conn, up, q) ==
    LET c == conectar(conn, up)
    IN IF c.ok
       THEN {[insumos |-> l, connection |-> desconectar(c.conn),
              soltas |-> Soltas(c.conn, 1)] : l \in listar_insumos_oracle(tab, q)}
       ELSE {[insumos |-> carregar_insumos(arq), connection |-> c.conn, soltas |-> 0]}

\* Estoque._carregar_insumos: the lists the load can return, with the
\* connection it leaves and the handles let go during it (the load sends one
\* statement, the SELECT of listar_insumos)
carregar(tab, arq, conn, up, q) ==
    LET c == conectar(conn, up)
    IN IF c.ok
       THEN {[insumos |-> IF l # <<>> THEN l ELSE carregar_insumos(arq),
              connection |-> desconectar(c.conn),
              soltas |-> Soltas(c.conn, 1)] : l \in listar_insumos_oracle(tab, q)}
       ELSE {[insumos |-> carregar_insumos(arq), connection |-> c.conn, soltas |-> 0]}

\* how the remote store behaved in a pass, as seen from outside
Remoto(amb, n) ==
    IF ~amb.conecta THEN "inacessivel"
    ELSE IF \A i \in 1..n : amb.ops[i] = "ok" THEN "ok"
    ELSE "falhas"

\* ---- the domain part of each public method: result, message, new working set

\* Estoque.listar_insumos
listar_insumos(lista) == lista

\* Estoque.buscar_insumo: the position of the first record with the code, 0
\* for None
buscar_insumo(lista, codigo) ==
    IF \E i \in 1..Len(lista) : lista[i].codigo = codigo
    THEN CHOOSE i \in 1..Len(lista) :
            /\ lista[i].codigo = codigo
            /\ \A j \in 1..(i - 1) : lista[j].codigo # codigo
    ELSE 0

\* The float that is not a number, float("nan"): a value apart from every
\* quantity of the model.
NaN == 99

\* Python's <=, <, + and - on floats: a comparison with NaN is False, a sum or
\* a difference with NaN is NaN
Le(a, b) == a # NaN /\ b # NaN /\ a <= b
Lt(a, b) == a # NaN /\ b # NaN /\ a < b
Mais(a, b) == IF a = NaN \/ b = NaN THEN NaN ELSE a + b
Menos(a, b) == IF a = NaN \/ b = NaN THEN NaN ELSE a - b

\* utils.validar_float: float(valor), None on ValueError.  The texts that
\* float() accepts here, with their values: the numerals, and "nan", which
\* float() accepts as NaN.
Numerais == {"-1", "0", "1"}
ValorDe(txt) == IF txt = "-1" THEN -1 ELSE IF txt = "0" THEN 0 ELSE 1
Valores == Numerais \cup {"abc"}
ValoresFloat == Valores \cup {"nan"}

validar_float(valor) ==
    IF valor \in Numerais THEN [nulo |-> FALSE, v |-> ValorDe(valor)]
    ELSE IF valor = "nan" THEN [nulo |-> FALSE, v |-> NaN]
    ELSE [nulo |-> TRUE, v |-> 0]

Resultado(ok, msg, lista, alerta) ==
    [ok |-> ok, msg |-> msg, insumos |-> lista, alerta |-> alerta]

\* variant: the new record is put first
adicionar_insumo_no_inicio(lista, insumo) ==
    IF buscar_insumo(lista, insumo.codigo) # 0
    THEN Resultado(FALSE, "Codigo de insumo ja existe.", lista, FALSE)
    ELSE Resultado(TRUE, "Insumo adicionado com sucesso.", <<insumo>> \o lista, FALSE)

\* variant: no look-up of the code before appending
adicionar_insumo_sem_busca(lista, insumo) ==
    Resultado(TRUE, "Insumo adicionado com sucesso.", Append(lista, insumo), FALSE)

\* Estoque.adicionar_insumo (estoque.py:57-61)
adicionar_insumo(lista, insumo) ==
    IF buscar_insumo(lista, insumo.codigo) # 0
    THEN Resultado(FALSE, "Codigo de insumo ja existe.", lista, FALSE)
    ELSE Resultado(TRUE, "Insumo adicionado com sucesso.", Append(lista, insumo), FALSE)

\* variant: the record is rebuilt from novos_dados, a quantity that is not
\* given starts at 0
Mescla_refaz(insumo, novos) ==
    [codigo |-> IF "codigo" \in DOMAIN novos THEN novos.codigo ELSE insumo.codigo,
     nome |-> IF "nome" \in DOMAIN novos THEN novos.nome ELSE insumo.nome,
     quantidade |-> IF "quantidade" \in DOMAIN novos THEN novos.quantidade ELSE 0,
     unidade |-> IF "unidade" \in DOMAIN novos THEN novos.unidade ELSE insumo.unidade,
     preco_unit |-> IF "preco_unit" \in DOMAIN novos THEN novos.preco_unit
                    ELSE insumo.preco_unit,
     nivel_min |-> IF "nivel_min" \in DOMAIN novos THEN novos.nivel_min
                   ELSE insumo.nivel_min,
     data_criacao |-> insumo.data_criacao]

\* {**insumo, **novos_dados}
Mescla(insumo, novos) ==
    [codigo |-> IF "codigo" \in DOMAIN novos THEN novos.codigo ELSE insumo.codigo,
     nome |-> IF "nome" \in DOMAIN novos THEN novos.nome ELSE insumo.nome,
     quantidade |-> IF "quantidade" \in DOMAIN novos THEN novos.quantidade
                    ELSE insumo.quantidade,
     unidade |-> IF "unidade" \in DOMAIN novos THEN novos.unidade ELSE insumo.unidade,
     preco_unit |-> IF "preco_unit" \in DOMAIN novos THEN novos.preco_unit
                    ELSE insumo.preco_unit,
     nivel_min |-> IF "nivel_min" \in DOMAIN novos THEN novos.nivel_min
                   ELSE insumo.nivel_min,
     data_criacao |-> insumo.data_criacao]

\* Estoque.atualizar_insumo (estoque.py:70-78)
atualizar_insumo(lista, codigo, novos_dados) ==
    LET i == buscar_insumo(lista, codigo)
    IN IF i = 0
       THEN Resultado(FALSE, "Insumo nao encontrado.", lista, FALSE)
       ELSE Resultado(TRUE, "Insumo atualizado com sucesso.",
                      [lista EXCEPT ![i] = Mescla(lista[i], novos_dados)], FALSE)

\* del self.insumos[i]
Del(lista, i) == SubSeq(lista, 1, i - 1) \o SubSeq(lista, i + 1, Len(lista))

\* Estoque.remover_insumo (estoque.py:84-92)
remover_insumo(lista, codigo) ==
    LET i == buscar_insumo(lista, codigo)
    IN IF i = 0
       THEN Resultado(FALSE, "Insumo nao encontrado.", lista, FALSE)
       ELSE Resultado(TRUE, "Insumo removido com sucesso.", Del(lista, i), FALSE)

\* variant: only negative amounts are rejected
registrar_entrada_aceita_zero(lista, codigo, valor) ==
    LET i == buscar_insumo(lista, codigo)
        quantidade == validar_float(valor)
    IN IF i = 0
       THEN Resultado(FALSE, "Insumo nao encontrado.", lista, FALSE)
       ELSE IF quantidade.nulo \/ Lt(quantidade.v, 0)
       THEN Resultado(FALSE, "Quantidade invalida.", lista, FALSE)
       ELSE Resultado(TRUE, "Entrada registrada.",
                      [lista EXCEPT ![i].quantidade = Mais(@, quantidade.v)], FALSE)

\* Estoque.registrar_entrada (estoque.py:98-111)
registrar_entrada(lista, codigo, valor) ==
    LET i == buscar_insumo(lista, codigo)
        quantidade == validar_float(valor)
    IN IF i = 0
       THEN Resultado(FALSE, "Insumo nao encontrado.", lista, FALSE)
       ELSE IF quantidade.nulo \/ Le(quantidade.v, 0)
       THEN Resultado(FALSE, "Quantidade invalida.", lista, FALSE)
       ELSE Resultado(TRUE, "Entrada registrada.",
                      [lista EXCEPT ![i].quantidade = Mais(@, quantidade.v)], FALSE)

\* variant: the stock is not compared with the amount
registrar_saida_sem_estoque(lista, codigo, valor) ==
    LET i == buscar_insumo(lista, codigo)
        quantidade == validar_float(valor)
    IN IF i = 0
       THEN Resultado(FALSE, "Insumo nao encontrado.", lista, FALSE)
       ELSE IF quantidade.nulo \/ Le(quantidade.v, 0)
       THEN Resultado(FALSE, "Quantidade invalida.", lista, FALSE)
       ELSE Resultado(TRUE, "Saida registrada.",
                      [lista EXCEPT ![i].quantidade = Menos(@, quantidade.v)],
                      Le(Menos(lista[i].quantidade, quantidade.v), lista[i].nivel_min))

\* variant: the warning is decided on the quantity before the exit
registrar_saida_alerta_antes(lista, codigo, valor) ==
    LET i == buscar_insumo(lista, codigo)
        quantidade == validar_float(valor)
    IN IF i = 0
       THEN Resultado(FALSE, "Insumo nao encontrado.", lista, FALSE)
       ELSE IF quantidade.nulo \/ Le(quantidade.v, 0)
       THEN Resultado(FALSE, "Quantidade invalida.", lista, FALSE)
       ELSE IF Lt(lista[i].quantidade, quantidade.v)
       THEN Resultado(FALSE, "Quantidade insuficiente em estoque.", lista, FALSE)
       ELSE Resultado(TRUE, "Saida registrada.",
                      [lista EXCEPT ![i].quantidade = Menos(@, quantidade.v)],
                      Le(lista[i].quantidade, lista[i].nivel_min))

\* variant: an exit of the whole quantity is refused
registrar_saida_limite(lista, codigo, valor) ==
    LET i == buscar_insumo(lista, codigo)
        quantidade == validar_float(valor)
    IN IF i = 0
       THEN Resultado(FALSE, "Insumo nao encontrado.", lista, FALSE)
       ELSE IF quantidade.nulo \/ Le(quantidade.v, 0)
       THEN Resultado(FALSE, "Quantidade invalida.", lista, FALSE)
       ELSE IF Le(lista[i].quantidade, quantidade.v)
       THEN Resultado(FALSE, "Quantidade insuficiente em estoque.", lista, FALSE)
       ELSE Resultado(TRUE, "Saida registrada.",
                      [lista EXCEPT ![i].quantidade = Menos(@, quantidade.v)],
                      Le(Menos(lista[i].quantidade, quantidade.v), lista[i].nivel_min))

\* Estoque.registrar_saida (estoque.py:117-138)
registrar_saida(lista, codigo, valor) ==
    LET i == buscar_insumo(lista, codigo)
        quantidade == validar_float(valor)
    IN IF i = 0
       THEN Resultado(FALSE, "Insumo nao encontrado.", lista, FALSE)
       ELSE IF quantidade.nulo \/ Le(quantidade.v, 0)
       THEN Resultado(FALSE, "Quantidade invalida.", lista, FALSE)
       ELSE IF Lt(lista[i].quantidade, quantidade.v)
       THEN Resultado(FALSE, "Quantidade insuficiente em estoque.", lista, FALSE)
       ELSE Resultado(TRUE, "Saida registrada.",
                      [lista EXCEPT ![i].quantidade = Menos(@, quantidade.v)],
                      Le(Menos(lista[i].quantidade, quantidade.v), lista[i].nivel_min))

\* variant: a record at its minimum level is not reported
RECURSIVE verificar_alertas_abaixo(_)
verificar_alertas_abaixo(lista) ==
    IF lista = <<>> THEN <<>>
    ELSE (IF Lt(Head(lista).quantidade, Head(lista).nivel_min)
          THEN <<[codigo |-> Head(lista).codigo, nome |-> Head(lista).nome,
                  quantidade |-> Head(lista).quantidade,
                  unidade |-> Head(lista).unidade,
                  nivel_min |-> Head(lista).nivel_min]>>
          ELSE <<>>) \o verificar_alertas_abaixo(Tail(lista))

\* Estoque.verificar_alertas
RECURSIVE verificar_alertas(_)
verificar_alertas(lista) ==
    IF lista = <<>> THEN <<>>
    ELSE (IF Le(Head(lista).quantidade, Head(lista).nivel_min)
          THEN <<[codigo |-> Head(lista).codigo, nome |-> Head(lista).nome,
                  quantidade |-> Head(lista).quantidade,
                  unidade |-> Head(lista).unidade,
                  nivel_min |-> Head(lista).nivel_min]>>
          ELSE <<>>) \o verificar_alertas(Tail(lista))

\* ------------------------------------------------------------------ inputs

\* the dicts handed to adicionar_insumo
Insumo(codigo, nome, quantidade) ==
    [codigo |-> codigo, nome |-> nome, quantidade |-> quantidade, unidade |-> "kg",
     preco_unit |-> 3, nivel_min |-> 1, data_criacao |-> "ausente"]

NovosInsumos ==
    {Insumo(1, "Ureia", 1), Insumo(2, "Potassio", 1), Insumo(2, "Ureia", 1),
     Insumo(1, "Ureia", -1)}

\* the stores at the start of a run
ArquivosIniciais ==
    {[estado |-> "ausente", doc |-> <<>>],
     [estado |-> "json", doc |-> <<Insumo(1, "Ureia", 1)>>]}

TabelasIniciais ==
    {[c \in Codigos |-> SemInsumo],
     [c \in Codigos |-> IF c = 1 THEN Linha(Insumo(1, "Ureia", 0))
                        ELSE Linha(Insumo(2, "Potassio", 2))]}

\* the field sets handed to atualizar_insumo
CamposUpdate ==
    {SemCampos, [nome |-> "Potassio", quantidade |-> -1], [codigo |-> 2]}

\* ----------------------------------------------------------------- the steps

\* the record of a call: the method and its arguments, what it returned and
\* printed, what the stores did during its synchronization pass or load, and
\* how many connection handles the gateway let go without close()
Chamada(op, codigo, valor, campos, r, remoto, io, salvou, soltas) ==
    [op |-> op, codigo |-> codigo, valor |-> valor, campos |-> campos,
     ok |-> r.ok, msg |-> r.msg, alerta |-> r.alerta,
     remoto |-> remoto, io |-> io, salvou |-> salvou, soltas |-> soltas]

Mutacoes == {"adicionar", "atualizar", "remover", "entrada", "saida"}

\* variant: the method reports what the local write reported
concluir_exige_salvar(r, s) ==
    IF s.salvou THEN r ELSE Resultado(FALSE, "Erro ao salvar.", r.insumos, FALSE)

\* The end of a mutating method after self._sincronizar() (estoque.py:62-64,
\* 73-75, 87-89, 109-111, 132-138): the result s of the pass is not looked
\* at, the success message is printed and True is returned; the working set
\* stays as the method changed it.
concluir(r, s) == r

SemResultado == Resultado(TRUE, "", <<>>, FALSE)

Init ==
    /\ fase = "novo"
    /\ insumos = <<>>
    /\ tabela \in TabelasIniciais
    /\ arquivo \in ArquivosIniciais
    /\ connection = "None"
    /\ ultimo = Chamada("nenhuma", 0, "", SemCampos, SemResultado, "-", "-", FALSE, 0)
    /\ adicionados = <<>>
    /\ soAdds = FALSE
    /\ passos = 0

\* Estoque.__init__ (a process start: main() builds one Estoque)
Construir ==
    /\ passos < MaxPassos
    /\ passos' = passos + 1
    /\ \E up \in BOOLEAN, q \in BOOLEAN :
      \E r \in carregar(tabela, arquivo, connection, up, q) :
        /\ fase' = "pronto"
        /\ insumos' = r.insumos
        /\ connection' = r.connection
        /\ ultimo' = Chamada("init", 0, "", SemCampos, SemResultado,
                             IF ~up THEN "inacessivel" ELSE IF q THEN "ok" ELSE "falhas",
                             "-", FALSE, r.soltas)
        /\ adicionados' = <<>>
        /\ soAdds' = (r.insumos = <<>>)
        /\ UNCHANGED <<tabela, arquivo>>

\* variant: the synchronization pass runs whether the method succeeded or not
ConcluiEm_sempre(op, codigo, valor, campos, r, ambientes) ==
    /\ passos < MaxPassos
    /\ passos' = passos + 1
    /\ IF TRUE
       THEN \E amb \in ambientes :
               LET s == sincronizar(r.insumos, tabela, arquivo, connection, amb)
                   fim == concluir(r, s)
               IN /\ fase' = fase
                  /\ insumos' = fim.insumos
                  /\ tabela' = s.tabela
                  /\ arquivo' = s.arquivo
                  /\ connection' = s.connection
                  /\ ultimo' = Chamada(op, codigo, valor, campos, fim,
                                       Remoto(amb, Len(r.insumos)), amb.io, s.salvou,
                                       s.soltas)
       ELSE /\ ultimo' = Chamada(op, codigo, valor, campos, r, "-", "-", FALSE, 0)
            /\ UNCHANGED <<fase, insumos, tabela, arquivo, connection>>

\* the rest of a public method after its domain part r: the synchronization
\* pass when r is a success, nothing when it is a failure; ambientes is what
\* the stores may do during the pass
ConcluiEm(op, codigo, valor, campos, r, ambientes) ==
    /\ passos < MaxPassos
    /\ passos' = passos + 1
    /\ IF r.ok
       THEN \E amb \in ambientes :
               LET s == sincronizar(r.insumos, tabela, arquivo, connection, amb)
                   fim == concluir(r, s)
               IN /\ fase' = fase
                  /\ insumos' = fim.insumos
                  /\ tabela' = s.tabela
                  /\ arquivo' = s.arquivo
                  /\ connection' = s.connection
                  /\ ultimo' = Chamada(op, codigo, valor, campos, fim,
                                       Remoto(amb, Len(r.insumos)), amb.io, s.salvou,
                                       s.soltas)
       ELSE /\ ultimo' = Chamada(op, codigo, valor, campos, r, "-", "-", FALSE, 0)
            /\ UNCHANGED <<fase, insumos, tabela, arquivo, connection>>

Conclui(op, codigo, valor, campos, r) ==
    ConcluiEm(op, codigo, valor, campos, r, Ambientes(Len(r.insumos)))

Adicionar ==
    /\ fase = "pronto"
    /\ \E insumo \in NovosInsumos :
         /\ Conclui("adicionar", insumo.codigo, "", SemCampos,
                    adicionar_insumo(insumos, insumo))
         /\ soAdds' = (soAdds /\ \A i \in 1..Len(adicionados) :
                                    adicionados[i].codigo # insumo.codigo)
         /\ adicionados' = IF soAdds' THEN Append(adicionados, insumo) ELSE <<>>

Atualizar ==
    /\ fase = "pronto"
    /\ \E codigo \in Codigos, novos_dados \in CamposUpdate :
         Conclui("atualizar", codigo, "", novos_dados,
                 atualizar_insumo(insumos, codigo, novos_dados))
    /\ soAdds' = FALSE
    /\ adicionados' = <<>>

Remover ==
    /\ fase = "pronto"
    /\ \E codigo \in Codigos :
         Conclui("remover", codigo, "", SemCampos,
                 remover_insumo(insumos, codigo))
    /\ soAdds' = FALSE
    /\ adicionados' = <<>>

Entrada ==
    /\ fase = "pronto"
    /\ \E codigo \in Codigos, valor \in Valores :
         Conclui("entrada", codigo, valor, SemCampos,
                    registrar_entrada(insumos, codigo, valor))
    /\ soAdds' = FALSE
    /\ adicionados' = <<>>

Saida ==
    /\ fase = "pronto"
    /\ \E codigo \in Codigos, valor \in Valores :
         Conclui("saida", codigo, valor, SemCampos,
                 registrar_saida(insumos, codigo, valor))
    /\ soAdds' = FALSE
    /\ adicionados' = <<>>

\* A read method: it returns a value computed from the working set and calls
\* neither self._sincronizar() nor the stores.  achou tells whether the value
\* returned is truthy (a non-empty list, a record).
Leitura(op, codigo, achou) ==
    /\ fase = "pronto"
    /\ passos < MaxPassos
    /\ passos' = passos + 1
    /\ ultimo' = Chamada(op, codigo, "", SemCampos, Resultado(achou, "", insumos, FALSE),
                         "-", "-", FALSE, 0)
    /\ UNCHANGED <<fase, insumos, tabela, arquivo, connection, adicionados, soAdds>>

\* Estoque.listar_insumos (estoque.py:38-42)
Listar == Leitura("listar", 0, listar_insumos(insumos) # <<>>)

\* Estoque.buscar_insumo (estoque.py:44-51)
Buscar == \E codigo \in Codigos : Leitura("buscar", codigo, buscar_insumo(insumos, codigo) # 0)

\* Estoque.verificar_alertas (estoque.py:140-154)
Alertas == Leitura("alertas", 0, verificar_alertas(insumos) # <<>>)

Next ==
    \/ Construir
    \/ Adicionar
    \/ Atualizar
    \/ Remover
    \/ Entrada
    \/ Saida
    \/ Listar
    \/ Buscar
    \/ Alertas

Spec == Init /\ [][Next]_vars

TypeOK ==
    /\ fase \in {"novo", "pronto"}
    /\ \A i \in 1..Len(insumos) : insumos[i] \in Insumos
    /\ passos \in 0..MaxPassos
    /\ connection \in {"None", "aberta"}

\* ------------------------------------------- the gateway driven on its own

\* the dicts handed to OracleGateway.atualizar_insumo by a caller of the
\* gateway: no key, keys that are not permitted only, some permitted keys,
\* permitted and other keys, a whole record
CamposGateway ==
    {SemCampos, [codigo |-> 2], [codigo |-> 1, data_criacao |-> "ausente"],
     [nome |-> "Potassio"], [quantidade |-> 0], [nome |-> "Ureia", quantidade |-> 1],
     [codigo |-> 1, nome |-> "Potassio"], Insumo(2, "Ureia", 0)}

\* the record of a call of the gateway
ChamadaGateway(op, codigo, campos, r) ==
    [op |-> op, codigo |-> codigo, campos |-> campos, ok |-> r.ok, dml |-> r.dml]

InitGateway ==
    /\ fase = "gateway"
    /\ insumos = <<>>
    /\ tabela \in TabelasIniciais
    /\ arquivo = [estado |-> "ausente", doc |-> <<>>]
    /\ connection = "None"
    /\ ultimo = ChamadaGateway("nenhuma", 0, SemCampos, [ok |-> TRUE, dml |-> FALSE])
    /\ adicionados = <<>>
    /\ soAdds = FALSE
    /\ passos = 0

\* one call of OracleGateway.atualizar_insumo; a statement that is sent goes
\* through executar_dml, which connects first
GatewayAtualizar ==
    /\ passos < MaxPassos
    /\ passos' = passos + 1
    /\ \E codigo \in Codigos, campos \in CamposGateway, d \in BOOLEAN :
         LET r == atualizar_insumo_oracle(tabela, codigo, campos, d)
         IN /\ tabela' = r.tab
            /\ connection' = IF r.dml THEN conectar(connection, d).conn ELSE connection
            /\ ultimo' = ChamadaGateway("atualizar_insumo", codigo, campos, r)
    /\ UNCHANGED <<fase, insumos, arquivo, adicionados, soAdds>>

NextGateway == GatewayAtualizar

SpecGateway == InitGateway /\ [][NextGateway]_vars

\* ------------------------------------------- the storage driven on its own

\* the file when a Storage is built: missing, a document written by
\* salvar_insumos, text that is not JSON (a document cut by a failed write),
\* bytes that are not UTF-8 (a document cut inside a character such as the
\* a-acute of a name, or damaged on the disk)
ArquivosStorage ==
    ArquivosIniciais
    \cup {[estado |-> "corrompido", doc |-> <<>>], [estado |-> "ilegivel", doc |-> <<>>]}

\* the lists handed to Storage.salvar_insumos
ListasStorage ==
    {<<>>, <<Insumo(1, "Ureia", 1)>>, <<Insumo(2, "Potassio", 1), Insumo(1, "Ureia", 0)>>,
     <<Insumo(2, "Ureia", 1), Insumo(1, "Potassio", -1)>>,
     <<Linha(Insumo(1, "Ureia", 1))>>, <<Insumo(1, "Ureia", 1), Linha(Insumo(2, "Potassio", 2))>>}

\* the record of a call of the storage
ChamadaStorage(op, lista, ok, excecao) ==
    [op |-> op, lista |-> lista, ok |-> ok, excecao |-> excecao]

InitStorage ==
    /\ fase = "storage"
    /\ insumos = <<>>
    /\ tabela = [c \in Codigos |-> SemInsumo]
    /\ arquivo \in ArquivosStorage
    /\ connection = "None"
    /\ ultimo = ChamadaStorage("nenhuma", <<>>, TRUE, "nenhuma")
    /\ adicionados = <<>>
    /\ soAdds = FALSE
    /\ passos = 0

\* one call of Storage.salvar_insumos
StorageSalvar ==
    /\ passos < MaxPassos
    /\ passos' = passos + 1
    /\ \E lista \in ListasStorage, io \in {"ok", "abrir", "escrever"} :
         LET s == salvar_insumos(arquivo, lista, io)
         IN /\ arquivo' = s.arq
            /\ ultimo' = ChamadaStorage("salvar_insumos", lista, s.ok, "nenhuma")
    /\ UNCHANGED <<fase, insumos, tabela, connection, adicionados, soAdds>>

\* one call of Storage.carregar_insumos: the list returned, or the exception
StorageCarregar ==
    /\ passos < MaxPassos
    /\ passos' = passos + 1
    /\ LET e == carregar_insumos_excecao(arquivo)
       IN ultimo' = IF e = "nenhuma"
                    THEN ChamadaStorage("carregar_insumos", carregar_insumos(arquivo),
                                        TRUE, e)
                    ELSE ChamadaStorage("carregar_insumos", <<>>, FALSE, e)
    /\ UNCHANGED <<fase, insumos, tabela, arquivo, connection, adicionados, soAdds>>

NextStorage ==
    \/ StorageSalvar
    \/ StorageCarregar

SpecStorage == InitStorage /\ [][NextStorage]_vars

\* --------------------- entries and exits with every amount float() accepts

\* The amounts of a run of Estoque above are numerals and a text float()
\* refuses.  Here registrar_entrada and registrar_saida are called with
\* ValoresFloat, "nan" included (main.py hands float(text) of any text that
\* validar_float accepts), on an Estoque whose database is out of reach and
\* whose file is written.

ListasQuantidades ==
    {<<>>, <<Insumo(1, "Ureia", 1)>>,
     <<Insumo(2, "Potassio", 0), Insumo(1, "Ureia", 2)>>}

\* the database out of reach, the file written
ForaDoAr(n) == {[conecta |-> FALSE, ops |-> [i \in 1..n |-> "dml"], io |-> "ok"]}

InitQuantidades ==
    /\ fase = "quantidades"
    /\ insumos \in ListasQuantidades
    /\ tabela = [c \in Codigos |-> SemInsumo]
    /\ arquivo = [estado |-> "json", doc |-> insumos]
    /\ connection = "None"
    /\ ultimo = Chamada("nenhuma", 0, "", SemCampos, SemResultado, "-", "-", FALSE, 0)
    /\ adicionados = <<>>
    /\ soAdds = FALSE
    /\ passos = 0

QuantidadesEntrada ==
    /\ fase = "quantidades"
    /\ \E codigo \in Codigos, valor \in ValoresFloat :
         LET r == registrar_entrada(insumos, codigo, valor)
         IN ConcluiEm("entrada", codigo, valor, SemCampos, r, ForaDoAr(Len(r.insumos)))
    /\ UNCHANGED <<adicionados, soAdds>>

QuantidadesSaida ==
    /\ fase = "quantidades"
    /\ \E codigo \in Codigos, valor \in ValoresFloat :
         LET r == registrar_saida(insumos, codigo, valor)
         IN ConcluiEm("saida", codigo, valor, SemCampos, r, ForaDoAr(Len(r.insumos)))
    /\ UNCHANGED <<adicionados, soAdds>>

NextQuantidades ==
    \/ QuantidadesEntrada
    \/ QuantidadesSaida

SpecQuantidades == InitQuantidades /\ [][NextQuantidades]_vars

\* ------------------------------------------------------------------ claims

\* the file holding exactly the list
Json(lista) == [estado |-> "json", doc |-> lista]

\* the row of the table under the record's code holds the record's values
NaTabela(insumo, tab) ==
    /\ tab[insumo.codigo] # SemInsumo
    /\ tab[insumo.codigo].nome = insumo.nome
    /\ tab[insumo.codigo].quantidade = insumo.quantidade
    /\ tab[insumo.codigo].unidade = insumo.unidade
    /\ tab[insumo.codigo].preco_unit = insumo.preco_unit
    /\ tab[insumo.codigo].nivel_min = insumo.nivel_min

CodigosUnicos(lista) ==
    \A i, j \in 1..Len(lista) : i # j => lista[i].codigo # lista[j].codigo

\* C1: in every reachable state no two records of the working set have the
\* same code.
C1_CodigoUnico == CodigosUnicos(insumos)

\* C2: in every reachable state every record of the working set has
\* quantity >= 0.
C2_QuantidadeNaoNegativa ==
    \A i \in 1..Len(insumos) : insumos[i].quantidade >= 0

\* C3: after every successful mutation, whatever the remote store did, the
\* local write was performed on the file (unless the file could not be opened,
\* its old contents are gone) and, when the write succeeded, the file holds the
\* working set record for record, in the same order, and loads back as it.
C3_ArquivoEspelha ==
    (ultimo.op \in Mutacoes /\ ultimo.ok) =>
        /\ ultimo.io \in {"ok", "abrir", "escrever"}
        /\ ultimo.io # "abrir" => arquivo \in {Json(insumos), [estado |-> "corrompido", doc |-> <<>>]}
        /\ ultimo.salvou => (arquivo = Json(insumos) /\ carregar_insumos(arquivo) = insumos)

\* C3 witness: a successful mutation whose pass had failing remote statements
\* and a successful local write of a non-empty working set
C3_Witness ==
    /\ ultimo.op \in Mutacoes
    /\ ultimo.ok
    /\ ultimo.remoto = "falhas"
    /\ ultimo.salvou
    /\ insumos # <<>>
    /\ arquivo = Json(insumos)

\* the domain preconditions of a mutation on the working set lista
PreCondicao(op, codigo, valor, lista) ==
    LET i == buscar_insumo(lista, codigo)
    IN CASE op = "adicionar" -> i = 0
         [] op \in {"atualizar", "remover"} -> i # 0
         [] op = "entrada" -> i # 0 /\ valor \in Numerais /\ ValorDe(valor) > 0
         [] op = "saida" -> /\ i # 0
                            /\ valor \in Numerais
                            /\ ValorDe(valor) > 0
                            /\ lista[i].quantidade >= ValorDe(valor)
         [] OTHER -> FALSE

\* the change a mutation makes to the working set
Efeito(op, codigo, valor, campos, antes, depois) ==
    LET i == buscar_insumo(antes, codigo)
    IN CASE op = "adicionar" ->
              /\ Len(depois) = Len(antes) + 1
              /\ SubSeq(depois, 1, Len(antes)) = antes
              /\ depois[Len(depois)].codigo = codigo
         [] op = "atualizar" -> depois = [antes EXCEPT ![i] = Mescla(antes[i], campos)]
         [] op = "remover" -> depois = Del(antes, i)
         [] op = "entrada" ->
              depois = [antes EXCEPT ![i].quantidade = antes[i].quantidade + ValorDe(valor)]
         [] op = "saida" ->
              depois = [antes EXCEPT ![i].quantidade = antes[i].quantidade - ValorDe(valor)]
         [] OTHER -> FALSE

\* C4: a mutation whose domain preconditions hold changes the working set and
\* reports success in every case of store behaviour (remote unreachable,
\* remote statements failing, local write failing).
C4_FalhaDeStoreNaoImpede ==
    [][(ultimo'.op \in Mutacoes
        /\ PreCondicao(ultimo'.op, ultimo'.codigo, ultimo'.valor, insumos))
       => (ultimo'.ok
           /\ Efeito(ultimo'.op, ultimo'.codigo, ultimo'.valor, ultimo'.campos,
                     insumos, insumos'))]_vars

\* C4 witness: a successful mutation during which remote statements failed
\* and the local write failed
C4_Witness ==
    /\ ultimo.op \in Mutacoes
    /\ ultimo.ok
    /\ ultimo.remoto = "falhas"
    /\ ultimo.io = "escrever"
    /\ ~ultimo.salvou

\* C5: after a pass in which the remote store was reachable and every remote
\* operation succeeded, every record of the working set is in the table under
\* its code with the working-set values.
C5_PasseOkEspelha ==
    (ultimo.op \in Mutacoes /\ ultimo.ok /\ ultimo.remoto = "ok") =>
        \A i \in 1..Len(insumos) : NaTabela(insumos[i], tabela)

\* the stores after a pass over the working set lista
Stores(lista, tab, arq, amb) ==
    LET s == sincronizar(lista, tab, arq, "None", amb)
    IN [tabela |-> s.tabela, arquivo |-> s.arquivo]

\* C6: from every reachable state and for every behaviour of the stores, a
\* second synchronization pass over the same working set, with the stores
\* behaving as in the first, leaves the table and the file as the first pass
\* left them.
C6_PasseIdempotente ==
    \A amb \in Ambientes(Len(insumos)) :
        LET um == Stores(insumos, tabela, arquivo, amb)
        IN Stores(insumos, um.tabela, um.arquivo, amb) = um

\* C6 witness: after a successful mutation, a non-empty working set for which
\* some pass changes both the table and the file
C6_Witness ==
    /\ ultimo.op \in Mutacoes
    /\ ultimo.ok
    /\ insumos # <<>>
    /\ \E amb \in Ambientes(Len(insumos)) :
          /\ Stores(insumos, tabela, arquivo, amb).tabela # tabela
          /\ Stores(insumos, tabela, arquivo, amb).arquivo # arquivo

\* l lists every row of the table once, ordered by name
ListagemDe(l, tab) ==
    /\ Len(l) = Cardinality(Linhas(tab))
    /\ {l[i] : i \in 1..Len(l)} = Linhas(tab)
    /\ Ordenada(l)

C8_AddsEmOrdem ==
    soAdds =>
        /\ listar_insumos(insumos) = adicionados
        /\ ultimo.op = "adicionar" => ultimo.ok

\* C8 witness: two adds with distinct codes on an initially empty working set
C8_Witness ==
    /\ soAdds
    /\ Len(adicionados) = 2
    /\ ultimo.op = "adicionar"

\* C9: add with a code that a record of the working set already has fails
\* with the duplicate-code message and leaves the working set as it was.
C9_AddDuplicadoFalha ==
    [][(ultimo'.op = "adicionar" /\ buscar_insumo(insumos, ultimo'.codigo) # 0)
       => (/\ ~ultimo'.ok
           /\ ultimo'.msg = "Codigo de insumo ja existe."
           /\ insumos' = insumos)]_vars

\* C9 witness: a rejected add on a working set of two records
C9_Witness ==
    /\ ultimo.op = "adicionar"
    /\ ~ultimo.ok
    /\ Len(insumos) = 2
    /\ buscar_insumo(insumos, ultimo.codigo) # 0

NaoPositivo(valor) == valor \in Numerais /\ ValorDe(valor) <= 0

Quantidades(lista) == [i \in 1..Len(lista) |-> lista[i].quantidade]

\* C10 as stated: register_entry with amount <= 0 fails with InvalidAmount and
\* leaves the quantities unchanged, for every code.
C10_Original ==
    [][(ultimo'.op = "entrada" /\ NaoPositivo(ultimo'.valor))
       => (/\ ~ultimo'.ok
           /\ ultimo'.msg = "Quantidade invalida."
           /\ Quantidades(insumos') = Quantidades(insumos))]_vars

\* C10 as amended: register_entry with amount <= 0 fails and leaves the working
\* set unchanged; the failure is InvalidAmount when the code matches a record
\* and NotFound when it matches none.
C10_EntradaNaoPositiva ==
    [][(ultimo'.op = "entrada" /\ NaoPositivo(ultimo'.valor))
       => (/\ ~ultimo'.ok
           /\ ultimo'.msg = IF buscar_insumo(insumos, ultimo'.codigo) # 0
                            THEN "Quantidade invalida."
                            ELSE "Insumo nao encontrado."
           /\ insumos' = insumos)]_vars

\* C10 witness: an entry of 0 on an existing code, rejected as invalid
C10_Witness ==
    /\ ultimo.op = "entrada"
    /\ ultimo.valor = "0"
    /\ buscar_insumo(insumos, ultimo.codigo) # 0
    /\ ultimo.msg = "Quantidade invalida."

Positivo(valor) == valor \in Numerais /\ ValorDe(valor) > 0

\* C11: register_exit for a code that matches a record and a positive amount
\* greater than that record's quantity fails with the insufficient-stock
\* message and leaves the working set, the record's quantity included, as it
\* was.
C11_SaidaSemEstoque ==
    [][(/\ ultimo'.op = "saida"
        /\ buscar_insumo(insumos, ultimo'.codigo) # 0
        /\ Positivo(ultimo'.valor)
        /\ ValorDe(ultimo'.valor) > insumos[buscar_insumo(insumos, ultimo'.codigo)].quantidade)
       => (/\ ~ultimo'.ok
           /\ ultimo'.msg = "Quantidade insuficiente em estoque."
           /\ insumos' = insumos)]_vars

\* C11 witness: an exit of 1 refused on a record whose quantity is 0
C11_Witness ==
    /\ ultimo.op = "saida"
    /\ ultimo.valor = "1"
    /\ ultimo.msg = "Quantidade insuficiente em estoque."
    /\ buscar_insumo(insumos, ultimo.codigo) # 0
    /\ insumos[buscar_insumo(insumos, ultimo.codigo)].quantidade = 0

EmAlerta(insumo) == insumo.quantidade <= insumo.nivel_min

Projecao(insumo) ==
    [codigo |-> insumo.codigo, nome |-> insumo.nome, quantidade |-> insumo.quantidade,
     unidade |-> insumo.unidade, nivel_min |-> insumo.nivel_min]

\* al is the projection of exactly the records of lista that are in alert, in
\* the order of lista
AlertasExatos(lista, al) ==
    LET emAlerta == {i \in 1..Len(lista) : EmAlerta(lista[i])}
        \* the position in al of the record at position i of lista
        posicao(i) == Cardinality({j \in emAlerta : j <= i})
    IN /\ Len(al) = Cardinality(emAlerta)
       /\ \A i \in emAlerta : al[posicao(i)] = Projecao(lista[i])

Inclui(al, insumo) == \E k \in 1..Len(al) : al[k] = Projecao(insumo)

Chaves == {"codigo", "nome", "quantidade", "unidade", "preco_unit", "nivel_min",
           "data_criacao"}

\* C13: a successful update(code, fields) gives the record with that code (the
\* first one) the value of every field present in fields and leaves its other
\* fields, every other record and the order of the working set as they were;
\* update on a code that matches no record fails with the not-found message
\* and changes nothing.
C13_UpdateParcial ==
    [][ultimo'.op = "atualizar" =>
        LET i == buscar_insumo(insumos, ultimo'.codigo)
        IN IF i = 0
           THEN /\ ~ultimo'.ok
                /\ ultimo'.msg = "Insumo nao encontrado."
                /\ insumos' = insumos
           ELSE /\ ultimo'.ok
                /\ Len(insumos') = Len(insumos)
                /\ \A j \in 1..Len(insumos) : j # i => insumos'[j] = insumos[j]
                /\ \A k \in Chaves :
                      insumos'[i][k] = IF k \in DOMAIN ultimo'.campos
                                       THEN ultimo'.campos[k]
                                       ELSE insumos[i][k]]_vars

\* C13 witness: an update of name and quantity on the second of two records,
\* the first keeping another quantity
C13_Witness ==
    /\ ultimo.op = "atualizar"
    /\ ultimo.ok
    /\ DOMAIN ultimo.campos = {"nome", "quantidade"}
    /\ Len(insumos) = 2
    /\ insumos[2].codigo = ultimo.codigo
    /\ insumos[2].nome = ultimo.campos.nome
    /\ insumos[1].quantidade # ultimo.campos.quantidade

\* C14: after a successful remove(code), find(code) returns not-found and
\* list() has no record with that code, and the other records are there with
\* the fields and the relative order they had; remove on a code that matches
\* no record fails with the not-found message and changes nothing.
C14_Remover ==
    [][ultimo'.op = "remover" =>
        LET i == buscar_insumo(insumos, ultimo'.codigo)
        IN IF i = 0
           THEN /\ ~ultimo'.ok
                /\ ultimo'.msg = "Insumo nao encontrado."
                /\ insumos' = insumos
           ELSE /\ ultimo'.ok
                /\ buscar_insumo(insumos', ultimo'.codigo) = 0
                /\ \A j \in 1..Len(listar_insumos(insumos')) :
                      listar_insumos(insumos')[j].codigo # ultimo'.codigo
                /\ insumos' = SelectSeq(insumos, LAMBDA r : r.codigo # ultimo'.codigo)]_vars

\* C14 restricted to working sets without duplicate codes
C14_RemoverCodigosUnicos ==
    [][CodigosUnicos(insumos) =>
       (ultimo'.op = "remover" =>
        LET i == buscar_insumo(insumos, ultimo'.codigo)
        IN IF i = 0
           THEN /\ ~ultimo'.ok
                /\ insumos' = insumos
           ELSE /\ ultimo'.ok
                /\ buscar_insumo(insumos', ultimo'.codigo) = 0
                /\ insumos' = SelectSeq(insumos, LAMBDA r : r.codigo # ultimo'.codigo))]_vars

\* C15: for every working set the Estoque can hold, loaded from the file or
\* from the table, salvar_insumos of it on a file system that works succeeds
\* and carregar_insumos then returns the same records, with the same field
\* values, in the same order.
C15_SalvarCarregar ==
    fase = "pronto" =>
        LET s == salvar_insumos(arquivo, listar_insumos(insumos), "ok")
        IN /\ s.ok
           /\ carregar_insumos(s.arq) = insumos

\* C15 restricted to working sets whose records carry no timestamp columns
C15_SalvarCarregarSemDatas ==
    (fase = "pronto" /\ Serializavel(insumos)) =>
        LET s == salvar_insumos(arquivo, listar_insumos(insumos), "ok")
        IN /\ s.ok
           /\ carregar_insumos(s.arq) = insumos

\* C16: when construction and when any method of the Estoque returns, the
\* gateway holds no connection and every connection opened during the load
\* or the pass was closed: none was let go without close().
C16_ConexoesFechadas ==
    ultimo.op # "nenhuma" =>
        /\ connection = "None"
        /\ ultimo.soltas = 0

\* the first half of C16 alone: the gateway holds no connection
C16_SemConexaoAberta ==
    ultimo.op # "nenhuma" => connection = "None"

\* C17: a call emits the low-stock warning exactly when it is a register_exit
\* that succeeds and leaves the record with quantity <= min_level; the call
\* that emits it returns success, its synchronization pass has run, and what
\* the pass wrote is the reduced quantity the warning was decided on.
C17_AlertaNaSaida ==
    [][LET i == buscar_insumo(insumos, ultimo'.codigo)
       IN /\ ultimo'.alerta <=> (/\ ultimo'.op = "saida"
                                 /\ ultimo'.ok
                                 /\ insumos'[i].quantidade <= insumos'[i].nivel_min)
          /\ ultimo'.alerta =>
                /\ ultimo'.msg = "Saida registrada."
                /\ insumos'[i].quantidade = insumos[i].quantidade - ValorDe(ultimo'.valor)
                /\ ultimo'.io # "-"
                /\ ultimo'.salvou => arquivo' = Json(insumos')]_vars

\* C17 witness: an exit that brings a record from above its min_level down to
\* it, the pass writing the file
C17_Witness ==
    /\ ultimo.op = "saida"
    /\ ultimo.ok
    /\ ultimo.alerta
    /\ ultimo.salvou
    /\ insumos[buscar_insumo(insumos, ultimo.codigo)].quantidade =
          insumos[buscar_insumo(insumos, ultimo.codigo)].nivel_min

\* the fields the gateway's update recognises
Reconhecidos == {"nome", "quantidade", "unidade", "preco_unit", "nivel_min"}

\* C18: the gateway's update(code, fields) changes, on the row with the code,
\* exactly the recognised fields that are present in fields, and nothing
\* else in the table; when fields has none of them it returns failure, sends
\* no statement (the gateway does not even connect) and leaves the table as
\* it was.
C18_UpdateGateway ==
    [][ultimo'.op = "atualizar_insumo" =>
        LET dados == ultimo'.campos
            dadas == Reconhecidos \cap DOMAIN dados
        IN IF dadas = {}
           THEN /\ ~ultimo'.ok
                /\ ~ultimo'.dml
                /\ tabela' = tabela
                /\ connection' = connection
           ELSE /\ ultimo'.dml
                /\ \A c \in Codigos : \A k \in Chaves :
                      tabela'[c][k] =
                        IF c = ultimo'.codigo /\ ultimo'.ok /\ tabela[c] # SemInsumo
                           /\ k \in dadas
                        THEN dados[k]
                        ELSE tabela[c][k]]_vars

\* C18 witness: an update called with keys that are not recognised, on a
\* table that has the row
C18_Witness ==
    /\ ultimo.op = "atualizar_insumo"
    /\ DOMAIN ultimo.campos = {"codigo", "data_criacao"}
    /\ ~ultimo.ok
    /\ tabela[ultimo.codigo] # SemInsumo

\* C19: carregar_insumos never raises; it returns the empty list when the
\* file is missing or its content cannot be parsed, and the stored list
\* otherwise.
C19_CarregarSemLevantar ==
    ultimo.op = "carregar_insumos" =>
        /\ ultimo.excecao = "nenhuma"
        /\ ultimo.lista = IF arquivo.estado = "json" THEN arquivo.doc ELSE <<>>

\* C19 on the files that are missing, hold a document or hold text that is
\* not JSON
C19_CarregarTextoUtf8 ==
    (ultimo.op = "carregar_insumos" /\ arquivo.estado # "ilegivel") =>
        /\ ultimo.excecao = "nenhuma"
        /\ ultimo.lista = IF arquivo.estado = "json" THEN arquivo.doc ELSE <<>>

\* depois is antes with the quantity of record i changed by delta and
\* nothing else: same length and order, same other records, same other
\* fields of record i
SoQuantidade(antes, depois, i, delta) ==
    /\ Len(depois) = Len(antes)
    /\ \A j \in 1..Len(antes) : j # i => depois[j] = antes[j]
    /\ depois[i].quantidade = antes[i].quantidade + delta
    /\ \A k \in Chaves \ {"quantidade"} : depois[i][k] = antes[i][k]

\* C20: a successful register_entry(code, amount) adds exactly amount to the
\* quantity of the record with the code, and a successful register_exit
\* subtracts exactly amount; an exit of the whole quantity succeeds and leaves
\* 0; the other fields of the record, the other records and the order of the
\* working set stay as they were.
C20_EntradaSaidaExatas ==
    [][LET i == buscar_insumo(insumos, ultimo'.codigo)
       IN /\ (ultimo'.op = "entrada" /\ ultimo'.ok)
                => SoQuantidade(insumos, insumos', i, ValorDe(ultimo'.valor))
          /\ (ultimo'.op = "saida" /\ ultimo'.ok)
                => SoQuantidade(insumos, insumos', i, 0 - ValorDe(ultimo'.valor))
          /\ (/\ ultimo'.op = "saida"
              /\ i # 0
              /\ Positivo(ultimo'.valor)
              /\ ValorDe(ultimo'.valor) = insumos[i].quantidade)
                => (ultimo'.ok /\ insumos'[i].quantidade = 0)]_vars

\* C20 witness: an exit of the whole quantity of the second of two records
C20_Witness ==
    /\ ultimo.op = "saida"
    /\ ultimo.ok
    /\ Len(insumos) = 2
    /\ buscar_insumo(insumos, ultimo.codigo) = 2
    /\ insumos[2].quantidade = 0

\* the messages of the failures of registrar_entrada and registrar_saida
NotFound == "Insumo nao encontrado."
InvalidAmount == "Quantidade invalida."
InsufficientStock == "Quantidade insuficiente em estoque."

\* an amount that is neither non-positive nor non-numeric: a number above 0
AmountValido(valor) == Positivo(valor)

\* the call just made failed for the first reason that applies
OrdemDasFalhas ==
    LET i == buscar_insumo(insumos, ultimo'.codigo)
    IN /\ ~ultimo'.ok => ultimo'.msg \in {NotFound, InvalidAmount, InsufficientStock}
       /\ i = 0 => (~ultimo'.ok /\ ultimo'.msg = NotFound)
       /\ (i # 0 /\ ~AmountValido(ultimo'.valor))
             => (~ultimo'.ok /\ ultimo'.msg = InvalidAmount)
       /\ ultimo'.msg = InsufficientStock
             => (~ultimo'.ok /\ i # 0 /\ AmountValido(ultimo'.valor))

\* C21: register_entry and register_exit report one failure reason, the first
\* that applies in the order NotFound, InvalidAmount, InsufficientStock: a code
\* that matches no record gives NotFound whatever the amount, an existing code
\* with a non-positive or non-numeric amount gives InvalidAmount whatever the
\* stock, and InsufficientStock is reported only for an existing code and a
\* valid amount.
C21_OrdemDasFalhas ==
    [][(ultimo'.op \in {"entrada", "saida"}) => OrdemDasFalhas]_vars

\* C21 for the amounts other than NaN: the numerals and the texts float()
\* refuses are reported in the order NotFound, InvalidAmount,
\* InsufficientStock.
C21_OrdemDasFalhasSemNaN ==
    [][(ultimo'.op \in {"entrada", "saida"} /\ ultimo'.valor # "nan")
       => OrdemDasFalhas]_vars

Leituras == {"listar", "buscar", "alertas"}

\* C22: a mutating operation that fails (DuplicateCode, NotFound,
\* InvalidAmount, InsufficientStock) and the reads list(), find() and alerts()
\* run no synchronization pass: the gateway is not opened, and the working set,
\* the local store and the remote store are left unchanged.
C22_SemPasse ==
    [][((ultimo'.op \in Mutacoes /\ ~ultimo'.ok) \/ ultimo'.op \in Leituras)
       => (/\ ultimo'.remoto = "-"
           /\ ultimo'.io = "-"
           /\ ~ultimo'.salvou
           /\ ultimo'.soltas = 0
           /\ connection' = connection
           /\ insumos' = insumos
           /\ arquivo' = arquivo
           /\ tabela' = tabela)]_vars

\* C22 witness: an exit refused for lack of stock while the file and the
\* table both differ from the working set
C22_Witness ==
    /\ ultimo.op = "saida"
    /\ ~ultimo.ok
    /\ ultimo.msg = InsufficientStock
    /\ arquivo # Json(insumos)
    /\ \E i \in 1..Len(insumos) : ~NaTabela(insumos[i], tabela)

\* the table holds exactly the records of the list
TabelaEspelha(lista, tab) ==
    /\ \A i \in 1..Len(lista) : NaTabela(lista[i], tab)
    /\ \A c \in Codigos : tab[c] # SemInsumo => buscar_insumo(lista, c) # 0

\* C23: with the remote store reachable and all its operations succeeding,
\* after a successful remove(code) and its synchronization pass the remote
\* store holds no record with that code and holds exactly the records of the
\* working set, and a Manager constructed next on the same stores does not
\* contain the removed record.
C23_RemoverPropaga ==
    [][/\ (ultimo'.op = "remover" /\ ultimo'.ok /\ ultimo'.remoto = "ok")
            => (/\ tabela'[ultimo'.codigo] = SemInsumo
                /\ TabelaEspelha(insumos', tabela'))
       /\ (/\ ultimo.op = "remover" /\ ultimo.ok /\ ultimo.remoto = "ok"
           /\ ultimo'.op = "init" /\ ultimo'.remoto = "ok")
            => buscar_insumo(insumos', ultimo.codigo) = 0]_vars

\* What the pass does to the rows of removed records: the row of a code that
\* no record of the working set carries is left as it was, by every call.
C23_PasseNaoApaga ==
    [][\A c \in Codigos :
          buscar_insumo(insumos', c) = 0 => tabela'[c] = tabela[c]]_vars

\* the two lists hold the same records with the same field values
MesmosRegistros(a, b) ==
    /\ Len(a) = Len(b)
    /\ \A r \in {a[i] : i \in 1..Len(a)} \cup {b[i] : i \in 1..Len(b)} :
          Cardinality({i \in 1..Len(a) : a[i] = r})
            = Cardinality({i \in 1..Len(b) : b[i] = r})

\* the call just recorded is a successful mutation made with the remote store
\* out of reach and written to the file
MutacaoOffline(chamada) ==
    /\ chamada.op \in Mutacoes
    /\ chamada.ok
    /\ chamada.remoto = "inacessivel"
    /\ chamada.salvou

\* C24: mutations made while the remote store was unreachable are not lost:
\* after a successful mutation made offline whose local write succeeded, an
\* Estoque constructed on the same stores has the same records and field
\* values as the working set of the first, whether the remote store is then
\* unreachable or reachable again, possibly with older, non-empty data.
C24_OfflineNaoPerde ==
    [][(MutacaoOffline(ultimo) /\ ultimo'.op = "init")
       => MesmosRegistros(insumos', insumos)]_vars

\* What holds of C24: the working set comes back when the construction finds
\* the remote store out of reach, failing its query, or empty.
C24_OfflineNaoPerdeSemRemoto ==
    [][(/\ MutacaoOffline(ultimo)
        /\ ultimo'.op = "init"
        /\ (ultimo'.remoto # "ok" \/ \A c \in Codigos : tabela[c] = SemInsumo))
       => MesmosRegistros(insumos', insumos)]_vars

\* C25: update(code, partial_fields) never changes the code of the record it
\* updates: after a successful update the record at that position still has
\* the code passed as the first argument, for every partial_fields, one that
\* carries a code entry included.
C25_UpdateMantemCodigo ==
    [][(ultimo'.op = "atualizar" /\ ultimo'.ok)
       => insumos'[buscar_insumo(insumos, ultimo'.codigo)].codigo = ultimo'.codigo]_vars

\* What holds of C25 in Estoque: the code stays when partial_fields carries no
\* code entry.
C25_UpdateSemCodigoMantem ==
    [][(ultimo'.op = "atualizar" /\ ultimo'.ok /\ "codigo" \notin DOMAIN ultimo'.campos)
       => insumos'[buscar_insumo(insumos, ultimo'.codigo)].codigo = ultimo'.codigo]_vars

\* What holds of C25 in the gateway: the UPDATE of atualizar_insumo never
\* assigns CODIGO, so every row keeps its code whatever the dict carries.
C25_GatewayMantemCodigo ==
    [][\A c \in Codigos :
          tabela[c] # SemInsumo => (tabela'[c] # SemInsumo /\ tabela'[c].codigo = c)]_vars
====
